---- MODULE Spec2Model ----
(***************************************************************************)
(* D2L Question Library CSV converter (csvConverter.ts) and the form that   *)
(* drives it (ConversionForm.tsx).                                         *)
(*                                                                         *)
(* Text is a sequence of one-character strings, so that the field parser,  *)
(* the line splitter, trim/toLowerCase/toUpperCase and escapeCSV work on   *)
(* characters exactly as the TypeScript does.                              *)
(***************************************************************************)
EXTENDS Naturals, Sequences, FiniteSets, TLC

VARIABLES
    csvContent,   \* convertToD2L: the input text
    points,       \* convertToD2L / generateD2LCSV: the points argument
    pc,           \* position inside convertToD2L / groupQuestions
    headers,      \* parseCSV: the header fields
    rows,         \* parseCSV: the raw rows (Record<string,string>)
    sourceRows,   \* loadSourceRows: the typed rows
    idx,          \* groupQuestions: index of the next row / group of a loop
    groupMap,     \* groupQuestions: Map<string, QuestionGroup>, insertion order
    groups,       \* groupQuestions: Array.from(groupMap.values())
    warnings,     \* groupQuestions: warnings
    skipped,      \* groupQuestions: skipped
    lines,        \* generateD2LCSV: lines
    csv,          \* generateD2LCSV: lines.join('\n')
    optionsCount, \* generateD2LCSV: optionsCount
    outcome,      \* convertToD2L: the ConversionResult returned or the Error thrown
    reparsed,     \* the emitted text fed back through the line splitter and parseCSVLine
    fileContent,  \* ConversionForm: useState<string | null>(null)
    fileName,     \* ConversionForm: useState<string>('')
    result,       \* ConversionForm: useState<ConversionResult | null>(null)
    error,        \* ConversionForm: useState<string | null>(null)
    isConverting, \* ConversionForm: useState(false)
    converting,   \* handleConvert calls waiting on their 300 ms timer, with what they captured
    reading,      \* FileUpload: the FileReader reads whose onload has not run yet
    download      \* handleDownload: the last download offered, link.download and the blob text

\* the state of the form other than points
formVars == <<fileContent, fileName, result, error, isConverting, converting, reading,
              download>>

vars == <<csvContent, points, pc, headers, rows, sourceRows, idx, groupMap, groups,
          warnings, skipped, lines, csv, optionsCount, outcome, reparsed, formVars>>

\* a value of type T | null is <<>> for null and <<v>> for the value v
Null == <<>>

Some(v) == <<v>>

\* the state of ConversionForm when it mounts; no read, timer or download yet
FormInit ==
    /\ fileContent = Null
    /\ fileName = <<>>
    /\ result = Null
    /\ error = Null
    /\ isConverting = FALSE
    /\ converting = <<>>
    /\ reading = <<>>
    /\ download = Null

(***************************************************************************)
(* Bounds of the model.                                                    *)
(***************************************************************************)
MaxRows == 3      \* data lines of an input file
MaxLen == 2       \* length of a free field value given to generateD2LCSV
MaxPoints == 1    \* points values 0..MaxPoints

(***************************************************************************)
(* Characters and JavaScript string primitives.                            *)
(***************************************************************************)
Comma == ","
Quote == "\""
LF == "\n"
CR == "\r"
Space == " "

UpperLetters == <<"A","B","C","D","E","F","G","H","I","J","K","L","M",
                  "N","O","P","Q","R","S","T","U","V","W","X","Y","Z">>
LowerLetters == <<"a","b","c","d","e","f","g","h","i","j","k","l","m",
                  "n","o","p","q","r","s","t","u","v","w","x","y","z">>

UpperSet == {UpperLetters[i] : i \in 1..Len(UpperLetters)}
LowerSet == {LowerLetters[i] : i \in 1..Len(LowerLetters)}
LowerOf == [c \in UpperSet |->
               LowerLetters[CHOOSE i \in 1..Len(UpperLetters) : UpperLetters[i] = c]]
UpperOf == [c \in LowerSet |->
               UpperLetters[CHOOSE i \in 1..Len(LowerLetters) : LowerLetters[i] = c]]

toLowerChar(c) == IF c \in UpperSet THEN LowerOf[c] ELSE c

toUpperChar(c) == IF c \in LowerSet THEN UpperOf[c] ELSE c

toLowerCase(s) == [i \in 1..Len(s) |-> toLowerChar(s[i])]

toUpperCase(s) == [i \in 1..Len(s) |-> toUpperChar(s[i])]

\* the characters String.prototype.trim removes (those the model's texts use)
IsWhiteSpace(c) == c \in {Space, LF, CR}

RECURSIVE trimStart(_)
trimStart(s) == IF s # <<>> /\ IsWhiteSpace(Head(s)) THEN trimStart(Tail(s)) ELSE s

RECURSIVE trimEnd(_)
trimEnd(s) == IF s # <<>> /\ IsWhiteSpace(s[Len(s)])
              THEN trimEnd(SubSeq(s, 1, Len(s) - 1))
              ELSE s

trim(s) == trimEnd(trimStart(s))

\* value.includes(c)
includes(s, c) == \E i \in 1..Len(s) : s[i] = c

\* s.substring(0, n)
substring0(s, n) == SubSeq(s, 1, IF Len(s) < n THEN Len(s) ELSE n)

\* parts.join(sep), sep a text
RECURSIVE join(_, _)
join(parts, sep) ==
    IF parts = <<>> THEN <<>>
    ELSE IF Len(parts) = 1 THEN parts[1]
    ELSE parts[1] \o sep \o join(Tail(parts), sep)

\* String(n) of a natural number
Digits == <<"0","1","2","3","4","5","6","7","8","9">>

RECURSIVE numberToString(_)
numberToString(n) ==
    IF n < 10 THEN <<Digits[n + 1]>>
    ELSE numberToString(n \div 10) \o <<Digits[(n % 10) + 1]>>

\* csvContent.split(/\r?\n/): cut at every LF, the CR right before it belongs to the cut
firstLF(s) == CHOOSE i \in 1..Len(s) : s[i] = LF /\ \A j \in 1..(i - 1) : s[j] # LF

dropLastCR(s) == IF s # <<>> /\ s[Len(s)] = CR THEN SubSeq(s, 1, Len(s) - 1) ELSE s

RECURSIVE splitLines(_)
splitLines(s) ==
    IF ~includes(s, LF) THEN <<s>>
    ELSE <<dropLastCR(SubSeq(s, 1, firstLF(s) - 1))>>
             \o splitLines(SubSeq(s, firstLF(s) + 1, Len(s)))

\* .filter(line => line.trim())
nonBlankLines(ls) == SelectSeq(ls, LAMBDA l : trim(l) # <<>>)

(***************************************************************************)
(* parseCSVLine: the quote-aware field parser.                             *)
(***************************************************************************)
RECURSIVE parseFrom(_, _, _, _, _)
parseFrom(line, i, current, inQuotes, fields) ==
    IF i > Len(line) THEN Append(fields, current)
    ELSE IF inQuotes
         THEN IF line[i] = Quote /\ i < Len(line) /\ line[i + 1] = Quote
              THEN parseFrom(line, i + 2, Append(current, Quote), TRUE, fields)
              ELSE IF line[i] = Quote
                   THEN parseFrom(line, i + 1, current, FALSE, fields)
                   ELSE parseFrom(line, i + 1, Append(current, line[i]), TRUE, fields)
         ELSE IF line[i] = Quote
              THEN parseFrom(line, i + 1, current, TRUE, fields)
              ELSE IF line[i] = Comma
                   THEN parseFrom(line, i + 1, <<>>, FALSE, Append(fields, current))
                   ELSE parseFrom(line, i + 1, Append(current, line[i]), FALSE, fields)

parseCSVLine(line) == parseFrom(line, 1, <<>>, FALSE, <<>>)

(***************************************************************************)
(* parseCSV.  A Record<string,string> is a sequence of [key, value] with   *)
(* distinct keys in insertion order; assigning an existing key overwrites  *)
(* its value in place.                                                     *)
(***************************************************************************)
recordSet(rec, k, v) ==
    IF \E i \in 1..Len(rec) : rec[i].key = k
    THEN [i \in 1..Len(rec) |-> IF rec[i].key = k THEN [key |-> k, value |-> v] ELSE rec[i]]
    ELSE Append(rec, [key |-> k, value |-> v])

\* headers.forEach((header, index) => row[header] = values[index] || '')
RECURSIVE buildRow(_, _, _, _)
buildRow(hs, values, index, row) ==
    IF index > Len(hs) THEN row
    ELSE buildRow(hs, values, index + 1,
                  recordSet(row, hs[index],
                            IF index <= Len(values) THEN values[index] ELSE <<>>))

\* the lines parseCSV works on, each through parseCSVLine
parsedLines(text) ==
    LET ls == nonBlankLines(splitLines(text))
    IN  [i \in 1..Len(ls) |-> parseCSVLine(ls[i])]

parseCSV(text) ==
    LET pl == parsedLines(text)
    IN  IF Len(pl) = 0
        THEN [ok |-> FALSE, headers |-> <<>>, rows |-> <<>>]
        ELSE [ok |-> TRUE,
              headers |-> pl[1],
              rows |-> [i \in 1..(Len(pl) - 1) |-> buildRow(pl[1], pl[i + 1], 1, <<>>)]]

(***************************************************************************)
(* validateColumns, getColumnValue, loadSourceRows.                        *)
(***************************************************************************)
QNumberName == <<"Q"," ","#">>
QTypeName == <<"Q"," ","T","y","p","e">>
QTextName == <<"Q"," ","T","e","x","t">>
QuestionName == <<"Q","u","e","s","t","i","o","n">>
AnswerName == <<"A","n","s","w","e","r">>
AnswerMatchName == <<"A","n","s","w","e","r"," ","M","a","t","c","h">>
NotesName == <<"N","o","t","e","s">>

REQUIRED_COLUMNS == <<QTypeName, QTextName, AnswerName, AnswerMatchName, NotesName>>

\* mutant: the headers are not trimmed
validateColumnsNoTrim(hs) ==
    LET normalizedHeaders == {toLowerCase(hs[i]) : i \in 1..Len(hs)}
        missing == SelectSeq(REQUIRED_COLUMNS,
                             LAMBDA required : toLowerCase(required) \notin normalizedHeaders)
    IN  [valid |-> missing = <<>>, missing |-> missing]

validateColumns(hs) ==
    LET normalizedHeaders == {toLowerCase(trim(hs[i])) : i \in 1..Len(hs)}
        missing == SelectSeq(REQUIRED_COLUMNS,
                             LAMBDA required : toLowerCase(required) \notin normalizedHeaders)
    IN  [valid |-> missing = <<>>, missing |-> missing]

getColumnValue(row, columnName) ==
    LET hit(i) == toLowerCase(trim(row[i].key)) = toLowerCase(columnName)
    IN  IF \E i \in 1..Len(row) : hit(i)
        THEN row[CHOOSE i \in 1..Len(row) : hit(i) /\ \A j \in 1..(i - 1) : ~hit(j)].value
        ELSE <<>>

loadSourceRow(row) ==
    [qNumber |-> getColumnValue(row, QNumberName),
     qType |-> getColumnValue(row, QTypeName),
     qText |-> getColumnValue(row, QTextName),
     question |-> getColumnValue(row, QuestionName),
     answer |-> getColumnValue(row, AnswerName),
     answerMatch |-> getColumnValue(row, AnswerMatchName),
     notes |-> getColumnValue(row, NotesName)]

loadSourceRows(rs) == [i \in 1..Len(rs) |-> loadSourceRow(rs[i])]

(***************************************************************************)
(* groupQuestions, one loop iteration at a time.                           *)
(***************************************************************************)
MCType == <<"M","C">>
CorrectWord == <<"c","o","r","r","e","c","t">>
RowPreviewLen == 30
GroupPreviewLen == 50

rowQNumber(row) == trim(row.qNumber)

noQNumber(row) == rowQNumber(row) = <<>>

notMC(row) == toUpperCase(trim(row.qType)) # MCType

\* mutant: the answer-match cell is not trimmed
rowIsCorrectNoTrim(row) == toLowerCase(row.answerMatch) = CorrectWord

rowIsCorrect(row) == toLowerCase(trim(row.answerMatch)) = CorrectWord

mapHas(m, k) == \E i \in 1..Len(m) : m[i].key = k

\* mutant: the option is put in front of the group's options
addOptionInFront(m, row) ==
    LET k == rowQNumber(row)
        m1 == IF mapHas(m, k) THEN m
              ELSE Append(m, [key |-> k, qText |-> row.qText, question |-> <<>>,
                              options |-> <<>>])
        opt == [answer |-> row.answer, isCorrect |-> rowIsCorrect(row),
                feedback |-> row.notes]
    IN  [i \in 1..Len(m1) |->
            IF m1[i].key = k
            THEN [m1[i] EXCEPT !.options = <<opt>> \o @]
            ELSE m1[i]]

\* mutant: the group key is the stem text, as before the grouping went by Q #
addOptionByStem(m, row) ==
    LET k == row.qText
        m1 == IF mapHas(m, k) THEN m
              ELSE Append(m, [key |-> k, qText |-> row.qText, question |-> <<>>,
                              options |-> <<>>])
        opt == [answer |-> row.answer, isCorrect |-> rowIsCorrect(row),
                feedback |-> row.notes]
    IN  [i \in 1..Len(m1) |->
            IF m1[i].key = k
            THEN [m1[i] EXCEPT !.options = Append(@, opt)]
            ELSE m1[i]]

\* mutant: every row of the group overwrites the stem
addOptionLastStem(m, row) ==
    LET k == rowQNumber(row)
        m1 == IF mapHas(m, k) THEN m
              ELSE Append(m, [key |-> k, qText |-> row.qText, question |-> <<>>,
                              options |-> <<>>])
        opt == [answer |-> row.answer, isCorrect |-> rowIsCorrect(row),
                feedback |-> row.notes]
    IN  [i \in 1..Len(m1) |->
            IF m1[i].key = k
            THEN [m1[i] EXCEPT !.qText = row.qText, !.options = Append(@, opt)]
            ELSE m1[i]]

\* groupMap.set(groupKey, {...}) when the key is new, then group.options.push({...})
addOption(m, row) ==
    LET k == rowQNumber(row)
        m1 == IF mapHas(m, k) THEN m
              ELSE Append(m, [key |-> k, qText |-> row.qText, question |-> <<>>,
                              options |-> <<>>])
        opt == [answer |-> row.answer, isCorrect |-> rowIsCorrect(row),
                feedback |-> row.notes]
    IN  [i \in 1..Len(m1) |->
            IF m1[i].key = k
            THEN [m1[i] EXCEPT !.options = Append(@, opt)]
            ELSE m1[i]]

\* Array.from(groupMap.values())
mapValues(m) ==
    [i \in 1..Len(m) |-> [qText |-> m[i].qText, question |-> m[i].question,
                          options |-> m[i].options]]

\* mutant: every option is counted
correctCountAll(group) == Len(group.options)

correctCount(group) ==
    Cardinality({i \in 1..Len(group.options) : group.options[i].isCorrect})

questionPreview(group) ==
    substring0(group.qText \o <<Space>> \o group.question, GroupPreviewLen)

warnNoQNumber(row) ==
    [kind |-> "noQNumber", text |-> substring0(row.qText, RowPreviewLen),
     type |-> <<>>, count |-> 0]

warnNotMC(row) ==
    [kind |-> "notMC", text |-> row.qNumber, type |-> row.qType, count |-> 0]

warnNoCorrect(group) ==
    [kind |-> "noCorrect", text |-> questionPreview(group), type |-> <<>>, count |-> 0]

warnMultiCorrect(group) ==
    [kind |-> "multiCorrect", text |-> questionPreview(group), type |-> <<>>,
     count |-> correctCount(group)]

(***************************************************************************)
(* escapeCSV and generateD2LCSV.                                           *)
(***************************************************************************)
NewQuestionLine == <<"N","e","w","Q","u","e","s","t","i","o","n",",","M","C",",",",",",">>
QuestionTextWord == <<"Q","u","e","s","t","i","o","n","T","e","x","t">>
PointsWord == <<"P","o","i","n","t","s">>
OptionWord == <<"O","p","t","i","o","n">>
SeparatorLine == <<",",",",",",",">>
CorrectWeight == 100
WrongWeight == 0

\* value.replace(/"/g, '""')
RECURSIVE doubleQuotes(_)
doubleQuotes(s) ==
    IF s = <<>> THEN <<>>
    ELSE (IF Head(s) = Quote THEN <<Quote, Quote>> ELSE <<Head(s)>>) \o doubleQuotes(Tail(s))

\* mutant: wraps in quotes without doubling the quotes inside
escapeCSVNoDoubling(value) ==
    IF includes(value, Comma) \/ includes(value, Quote) \/ includes(value, LF)
    THEN <<Quote>> \o value \o <<Quote>>
    ELSE value

\* mutant: does not look for a line feed
escapeCSVNoNewline(value) ==
    IF includes(value, Comma) \/ includes(value, Quote)
    THEN <<Quote>> \o doubleQuotes(value) \o <<Quote>>
    ELSE value

escapeCSV(value) ==
    IF includes(value, Comma) \/ includes(value, Quote) \/ includes(value, LF)
    THEN <<Quote>> \o doubleQuotes(value) \o <<Quote>>
    ELSE value

\* mutant: the prompt is concatenated to the stem
questionTextLineWithPrompt(group) ==
    QuestionTextWord \o <<Comma>>
        \o escapeCSV(trim(group.qText \o <<Space>> \o group.question))
        \o <<Comma, Comma, Comma>>

questionTextLine(group) ==
    QuestionTextWord \o <<Comma>> \o escapeCSV(trim(group.qText)) \o <<Comma, Comma, Comma>>

pointsLine(p) == PointsWord \o <<Comma>> \o numberToString(p) \o <<Comma, Comma, Comma>>

optionWeight(option) == IF option.isCorrect THEN CorrectWeight ELSE WrongWeight

optionLine(option) ==
    OptionWord \o <<Comma>> \o numberToString(optionWeight(option)) \o <<Comma>>
        \o escapeCSV(option.answer) \o <<Comma, Comma>> \o escapeCSV(option.feedback)

groupLines(group, p) ==
    <<NewQuestionLine, questionTextLine(group), pointsLine(p)>>
        \o [j \in 1..Len(group.options) |-> optionLine(group.options[j])]
        \o <<SeparatorLine>>

RECURSIVE generateLines(_, _)
generateLines(gs, p) ==
    IF gs = <<>> THEN <<>>
    ELSE groupLines(Head(gs), p) \o generateLines(Tail(gs), p)

\* mutant: optionsCount++ once per group
countOptionsPerGroup(gs) == Len(gs)

RECURSIVE countOptions(_)
countOptions(gs) ==
    IF gs = <<>> THEN 0
    ELSE Len(Head(gs).options) + countOptions(Tail(gs))

generateD2LCSV(gs, p) ==
    LET ls == generateLines(gs, p)
    IN  [lines |-> ls, csv |-> join(ls, <<LF>>), optionsCount |-> countOptions(gs)]

(***************************************************************************)
(* Input files of the model: a header line followed by up to MaxRows       *)
(* lines, each drawn from a fixed set of data lines.                       *)
(***************************************************************************)
mkLine(fields) == join(fields, <<Comma>>)

HeaderFull == mkLine(<<QNumberName, QTypeName, QTextName, AnswerName, AnswerMatchName,
                       NotesName>>)
\* other case, padded with blanks, with the optional Question column
HeaderLoose == mkLine(<<<<" ","q"," ","#"," ">>, <<"q"," ","t","y","p","e">>,
                        <<"Q"," ","T","E","X","T"," ">>, <<" ","a","n","s","w","e","r">>,
                        <<"A","N","S","W","E","R"," ","M","A","T","C","H">>,
                        <<"n","o","t","e","s">>, QuestionName>>)
HeaderNoQNumber == mkLine(<<QTypeName, QTextName, AnswerName, AnswerMatchName, NotesName>>)
HeaderThreeMissing == mkLine(<<QNumberName, QTextName, NotesName>>)
BlankLine == <<Space>>

HeaderChoices == {HeaderFull, HeaderLoose, HeaderNoQNumber, HeaderThreeMissing, BlankLine}

CorrectCell == <<"C","o","r","r","e","c","t">>

RowChoices ==
    { mkLine(<<<<"1">>, <<"M","C">>, <<"s">>, <<"a">>, CorrectCell, <<"n">>>>),
      \* a short line: no Notes cell
      mkLine(<<<<"1">>, <<"M","C">>, <<"t">>, <<"b">>,
               <<"i","n","c","o","r","r","e","c","t">>>>),
      mkLine(<<<<"2">>, <<"M","C">>, <<"s">>, <<"a">>, CorrectCell,
               <<Quote,"x",Quote,Quote,"y",Quote>>>>),
      \* padded cells, a quoted cell holding a comma, CR before the line end
      mkLine(<<<<" ","1"," ">>, <<"m","c"," ">>, <<" ","s">>,
               <<Quote,"a",Comma,"b",Quote>>,
               <<" ","C","O","R","R","E","C","T"," ">>, <<"n",CR>>>>),
      mkLine(<<<<"2">>, <<"S","A">>, <<"t">>, <<"b">>, CorrectCell, <<"n">>>>),
      mkLine(<<<<>>, <<"M","C">>, <<"s">>, <<"a">>, CorrectCell, <<"n">>>>),
      mkLine(<<<<"2">>, <<"M","C">>, <<"t">>, <<"b">>, <<>>, <<>>>>),
      BlankLine }

RowSeqs(n) == UNION {[1..k -> RowChoices] : k \in 0..n}

\* every line sequence under the standard header, shorter ones under the others
InputFiles ==
    {join(<<HeaderFull>> \o rs, <<LF>>) : rs \in RowSeqs(MaxRows)}
        \cup {join(<<h>> \o rs, <<LF>>) : h \in HeaderChoices, rs \in RowSeqs(MaxRows - 1)}

NoOutcome == [kind |-> "none"]

Init ==
    /\ csvContent \in InputFiles
    /\ points = 1
    /\ pc = "parse"
    /\ headers = <<>>
    /\ rows = <<>>
    /\ sourceRows = <<>>
    /\ idx = 0
    /\ groupMap = <<>>
    /\ groups = <<>>
    /\ warnings = <<>>
    /\ skipped = 0
    /\ lines = <<>>
    /\ csv = <<>>
    /\ optionsCount = 0
    /\ outcome = NoOutcome
    /\ reparsed = <<>>
    /\ FormInit

(***************************************************************************)
(* convertToD2L, step by step.                                             *)
(***************************************************************************)
\* parseCSV throws 'CSV file is empty'
ParseEmpty ==
    /\ pc = "parse"
    /\ nonBlankLines(splitLines(csvContent)) = <<>>
    /\ outcome' = [kind |-> "error", error |-> "EmptyInput", missing |-> <<>>]
    /\ pc' = "failed"
    /\ UNCHANGED <<csvContent, points, headers, rows, sourceRows, idx, groupMap, groups,
                   warnings, skipped, lines, csv, optionsCount, reparsed, formVars>>

ParseOk ==
    /\ pc = "parse"
    /\ LET parsed == parseCSV(csvContent)
       IN  /\ parsed.ok
           /\ headers' = parsed.headers
           /\ rows' = parsed.rows
    /\ pc' = "validate"
    /\ UNCHANGED <<csvContent, points, sourceRows, idx, groupMap, groups,
                   warnings, skipped, lines, csv, optionsCount, outcome, reparsed, formVars>>

\* throw new Error(`Missing required columns: ${validation.missing.join(', ')}`)
ValidateFail ==
    /\ pc = "validate"
    /\ LET validation == validateColumns(headers)
       IN  /\ ~validation.valid
           /\ outcome' = [kind |-> "error", error |-> "MissingColumns",
                          missing |-> validation.missing]
    /\ pc' = "failed"
    /\ UNCHANGED <<csvContent, points, headers, rows, sourceRows, idx, groupMap, groups,
                   warnings, skipped, lines, csv, optionsCount, reparsed, formVars>>

\* validation passed: loadSourceRows, then groupQuestions starts its row loop
LoadRows ==
    /\ pc = "validate"
    /\ validateColumns(headers).valid
    /\ sourceRows' = loadSourceRows(rows)
    /\ idx' = 1
    /\ pc' = "rows"
    /\ UNCHANGED <<csvContent, points, headers, rows, groupMap, groups,
                   warnings, skipped, lines, csv, optionsCount, outcome, reparsed, formVars>>

SkipNoQNumber ==
    /\ pc = "rows"
    /\ idx <= Len(sourceRows)
    /\ noQNumber(sourceRows[idx])
    /\ warnings' = Append(warnings, warnNoQNumber(sourceRows[idx]))
    /\ skipped' = skipped + 1
    /\ idx' = idx + 1
    /\ UNCHANGED <<csvContent, points, pc, headers, rows, sourceRows, groupMap, groups,
                   lines, csv, optionsCount, outcome, reparsed, formVars>>

\* mutant: the group of the row is created before its type is looked at
SkipNotMCAfterCreate ==
    /\ pc = "rows"
    /\ idx <= Len(sourceRows)
    /\ ~noQNumber(sourceRows[idx])
    /\ notMC(sourceRows[idx])
    /\ groupMap' = IF mapHas(groupMap, rowQNumber(sourceRows[idx])) THEN groupMap
                   ELSE Append(groupMap, [key |-> rowQNumber(sourceRows[idx]),
                                          qText |-> sourceRows[idx].qText,
                                          question |-> <<>>, options |-> <<>>])
    /\ warnings' = Append(warnings, warnNotMC(sourceRows[idx]))
    /\ skipped' = skipped + 1
    /\ idx' = idx + 1
    /\ UNCHANGED <<csvContent, points, pc, headers, rows, sourceRows, groups,
                   lines, csv, optionsCount, outcome, reparsed, formVars>>

SkipNotMC ==
    /\ pc = "rows"
    /\ idx <= Len(sourceRows)
    /\ ~noQNumber(sourceRows[idx])
    /\ notMC(sourceRows[idx])
    /\ warnings' = Append(warnings, warnNotMC(sourceRows[idx]))
    /\ skipped' = skipped + 1
    /\ idx' = idx + 1
    /\ UNCHANGED <<csvContent, points, pc, headers, rows, sourceRows, groupMap, groups,
                   lines, csv, optionsCount, outcome, reparsed, formVars>>

AddOption ==
    /\ pc = "rows"
    /\ idx <= Len(sourceRows)
    /\ ~noQNumber(sourceRows[idx])
    /\ ~notMC(sourceRows[idx])
    /\ groupMap' = addOption(groupMap, sourceRows[idx])
    /\ idx' = idx + 1
    /\ UNCHANGED <<csvContent, points, pc, headers, rows, sourceRows, groups,
                   warnings, skipped, lines, csv, optionsCount, outcome, reparsed, formVars>>

\* const groups = Array.from(groupMap.values())
CollectGroups ==
    /\ pc = "rows"
    /\ idx > Len(sourceRows)
    /\ groups' = mapValues(groupMap)
    /\ idx' = 1
    /\ pc' = "groups"
    /\ UNCHANGED <<csvContent, points, headers, rows, sourceRows, groupMap,
                   warnings, skipped, lines, csv, optionsCount, outcome, reparsed, formVars>>

CheckGroup ==
    /\ pc = "groups"
    /\ idx <= Len(groups)
    /\ warnings' = IF correctCount(groups[idx]) = 0
                   THEN Append(warnings, warnNoCorrect(groups[idx]))
                   ELSE IF correctCount(groups[idx]) > 1
                        THEN Append(warnings, warnMultiCorrect(groups[idx]))
                        ELSE warnings
    /\ idx' = idx + 1
    /\ UNCHANGED <<csvContent, points, pc, headers, rows, sourceRows, groupMap, groups,
                   skipped, lines, csv, optionsCount, outcome, reparsed, formVars>>

\* groupQuestions returned no group
NoQuestions ==
    /\ pc = "groups"
    /\ idx > Len(groups)
    /\ Len(groups) = 0
    /\ outcome' = [kind |-> "error", error |-> "NoQuestions", missing |-> <<>>]
    /\ pc' = "failed"
    /\ UNCHANGED <<csvContent, points, headers, rows, sourceRows, idx, groupMap, groups,
                   warnings, skipped, lines, csv, optionsCount, reparsed, formVars>>

\* generateD2LCSV(groups, points) and the ConversionResult
Generate ==
    /\ pc = "groups"
    /\ idx > Len(groups)
    /\ Len(groups) # 0
    /\ \E p \in 0..MaxPoints :
          LET generated == generateD2LCSV(groups, p)
          IN  /\ points' = p
              /\ lines' = generated.lines
              /\ csv' = generated.csv
              /\ optionsCount' = generated.optionsCount
              /\ outcome' = [kind |-> "result",
                             csvContent |-> generated.csv,
                             questionsCount |-> Len(groups),
                             optionsCount |-> generated.optionsCount,
                             warnings |-> warnings,
                             skippedRows |-> skipped]
    /\ pc' = "done"
    /\ UNCHANGED <<csvContent, headers, rows, sourceRows, idx, groupMap, groups,
                   warnings, skipped, reparsed, formVars>>

Next ==
    \/ ParseEmpty
    \/ ParseOk
    \/ ValidateFail
    \/ LoadRows
    \/ SkipNoQNumber
    \/ SkipNotMC
    \/ AddOption
    \/ CollectGroups
    \/ CheckGroup
    \/ NoQuestions
    \/ Generate

Spec == Init /\ [][Next]_vars

(***************************************************************************)
(* generateD2LCSV called directly on arbitrary groups, and its output fed  *)
(* back through the line splitter and parseCSVLine of parseCSV.            *)
(***************************************************************************)
Alphabet == {"a", Comma, Quote, LF, Space, CR}

Texts(n) == UNION {[1..k -> Alphabet] : k \in 0..n}

ShortTexts == {<<>>} \cup {<<c>> : c \in Alphabet}

\* <<groups, options per group>> of the group sequences given directly
Shapes == {<<0, 0>>, <<1, 0>>, <<1, 2>>, <<2, 1>>}

\* g groups of o options; the fields take the values x and y in turn, the options
\* are correct and not correct in turn
directGroups(x, y, g, o) ==
    [i \in 1..g |->
        [qText |-> IF i % 2 = 1 THEN x ELSE y,
         question |-> y,
         options |-> [j \in 1..o |->
                         [answer |-> IF (i + j) % 2 = 0 THEN x ELSE y,
                          isCorrect |-> (j % 2 = 1),
                          feedback |-> IF (i + j) % 2 = 0 THEN y ELSE x]]]]

InitEmit ==
    /\ csvContent = <<>>
    /\ points = 1
    /\ pc = "direct"
    /\ headers = <<>>
    /\ rows = <<>>
    /\ sourceRows = <<>>
    /\ idx = 0
    /\ groupMap = <<>>
    /\ \E x \in Texts(MaxLen), y \in ShortTexts, shape \in Shapes :
          groups = directGroups(x, y, shape[1], shape[2])
    /\ warnings = <<>>
    /\ skipped = 0
    /\ lines = <<>>
    /\ csv = <<>>
    /\ optionsCount = 0
    /\ outcome = NoOutcome
    /\ reparsed = <<>>
    /\ FormInit

GenerateDirect ==
    /\ pc = "direct"
    /\ \E p \in 0..MaxPoints :
          LET generated == generateD2LCSV(groups, p)
          IN  /\ points' = p
              /\ lines' = generated.lines
              /\ csv' = generated.csv
              /\ optionsCount' = generated.optionsCount
    /\ pc' = "emitted"
    /\ UNCHANGED <<csvContent, headers, rows, sourceRows, idx, groupMap, groups,
                   warnings, skipped, outcome, reparsed, formVars>>

\* parseCSV's lines of the emitted text, each through parseCSVLine
Reparse ==
    /\ pc = "emitted"
    /\ reparsed' = parsedLines(csv)
    /\ pc' = "reparsed"
    /\ UNCHANGED <<csvContent, points, headers, rows, sourceRows, idx, groupMap, groups,
                   warnings, skipped, lines, csv, optionsCount, outcome, formVars>>

NextEmit ==
    \/ GenerateDirect
    \/ Reparse

SpecEmit == InitEmit /\ [][NextEmit]_vars

(***************************************************************************)
(* groupQuestions and convertToD2L as one call, the way ConversionForm     *)
(* uses them.                                                              *)
(***************************************************************************)
\* for (const row of rows) {...}: the groups, warnings and skipped count after row i on
RECURSIVE groupRowsFrom(_, _, _)
groupRowsFrom(rs, i, acc) ==
    IF i > Len(rs) THEN acc
    ELSE groupRowsFrom(rs, i + 1,
            IF noQNumber(rs[i])
            THEN [acc EXCEPT !.warnings = Append(@, warnNoQNumber(rs[i])),
                             !.skipped = @ + 1]
            ELSE IF notMC(rs[i])
                 THEN [acc EXCEPT !.warnings = Append(@, warnNotMC(rs[i])),
                                  !.skipped = @ + 1]
                 ELSE [acc EXCEPT !.groupMap = addOption(@, rs[i])])

\* for (const group of groups) {...}: the warnings of the groups from group i on
RECURSIVE groupWarningsFrom(_, _)
groupWarningsFrom(gs, i) ==
    IF i > Len(gs) THEN <<>>
    ELSE (IF correctCount(gs[i]) = 0 THEN <<warnNoCorrect(gs[i])>>
          ELSE IF correctCount(gs[i]) > 1 THEN <<warnMultiCorrect(gs[i])>>
          ELSE <<>>) \o groupWarningsFrom(gs, i + 1)

groupQuestions(rs) ==
    LET acc == groupRowsFrom(rs, 1, [groupMap |-> <<>>, warnings |-> <<>>, skipped |-> 0])
        gs == mapValues(acc.groupMap)
    IN  [groups |-> gs,
         warnings |-> acc.warnings \o groupWarningsFrom(gs, 1),
         skipped |-> acc.skipped]

\* the ConversionResult returned, or the Error thrown
convertToD2L(content, p) ==
    LET parsed == parseCSV(content)
        validation == validateColumns(parsed.headers)
        grouping == groupQuestions(loadSourceRows(parsed.rows))
        generated == generateD2LCSV(grouping.groups, p)
    IN  IF ~parsed.ok
        THEN [kind |-> "error", error |-> "EmptyInput", missing |-> <<>>]
        ELSE IF ~validation.valid
        THEN [kind |-> "error", error |-> "MissingColumns", missing |-> validation.missing]
        ELSE IF Len(grouping.groups) = 0
        THEN [kind |-> "error", error |-> "NoQuestions", missing |-> <<>>]
        ELSE [kind |-> "result",
              csvContent |-> generated.csv,
              questionsCount |-> Len(grouping.groups),
              optionsCount |-> generated.optionsCount,
              warnings |-> grouping.warnings,
              skippedRows |-> grouping.skipped]

(***************************************************************************)
(* ConversionForm and FileUpload: the handlers, the FileReader reads and   *)
(* the 300 ms timer of handleConvert as separate steps.                    *)
(***************************************************************************)
MaxReads == 2     \* FileReader reads in flight at once

DotCsv == <<".","c","s","v">>
D2LSuffix == <<"_","D","2","L",".","c","s","v">>

occursAt(s, pat, i) == i + Len(pat) - 1 <= Len(s) /\ SubSeq(s, i, i + Len(pat) - 1) = pat

\* s.replace(pat, rep) with a string pattern: the first occurrence only
replaceFirst(s, pat, rep) ==
    IF \E i \in 1..Len(s) : occursAt(s, pat, i)
    THEN LET i == CHOOSE k \in 1..Len(s) :
                      occursAt(s, pat, k) /\ \A j \in 1..(k - 1) : ~occursAt(s, pat, j)
         IN  SubSeq(s, 1, i - 1) \o rep \o SubSeq(s, i + Len(pat), Len(s))
    ELSE s

\* fileName.replace('.csv', '') + '_D2L.csv'
downloadName(name) == replaceFirst(name, DotCsv, <<>>) \o D2LSuffix

\* the files the user has: two that convert, one that lacks columns, an empty one
FormFiles ==
    { [name |-> <<"a">> \o DotCsv,
       content |-> join(<<HeaderFull,
                          mkLine(<<<<"1">>, <<"M","C">>, <<"s">>, <<"a">>, CorrectCell,
                                   <<"n">>>>)>>, <<LF>>)],
      [name |-> <<"b">> \o DotCsv,
       content |-> join(<<HeaderFull,
                          mkLine(<<<<"2">>, <<"M","C">>, <<"t">>, <<"b">>, <<>>, <<>>>>)>>,
                        <<LF>>)],
      [name |-> <<"c">> \o DotCsv, content |-> HeaderThreeMissing],
      [name |-> <<"e">> \o DotCsv, content |-> <<>>] }

\* what the user can type into the points input
TypedPoints == 0..(MaxPoints + 1)

\* Number(e.target.value) || 1
pointsOf(v) == IF v = 0 THEN 1 ELSE v

\* !fileContent is false: neither null nor the empty string
hasFile == fileContent # Null /\ fileContent[1] # <<>>

removeAt(q, i) == SubSeq(q, 1, i - 1) \o SubSeq(q, i + 1, Len(q))

\* the converter's own variables, which the form never touches
converterVars == <<csvContent, pc, headers, rows, sourceRows, idx, groupMap, groups,
                   warnings, skipped, lines, csv, optionsCount, outcome, reparsed>>

InitForm ==
    /\ csvContent = <<>>
    /\ points = 1
    /\ pc = "form"
    /\ headers = <<>>
    /\ rows = <<>>
    /\ sourceRows = <<>>
    /\ idx = 0
    /\ groupMap = <<>>
    /\ groups = <<>>
    /\ warnings = <<>>
    /\ skipped = 0
    /\ lines = <<>>
    /\ csv = <<>>
    /\ optionsCount = 0
    /\ outcome = NoOutcome
    /\ reparsed = <<>>
    /\ FormInit

\* FileUpload (rendered while !fileContent): a file is dropped or picked, readFile
\* starts a FileReader on it
readFile ==
    /\ ~hasFile
    /\ Len(reading) < MaxReads
    /\ \E f \in FormFiles : reading' = Append(reading, f)
    /\ UNCHANGED <<converterVars, points, fileContent, fileName, result, error,
                   isConverting, converting, download>>

\* reader.onload of any read in flight: onFileSelect(content, file.name)
handleFileSelect ==
    /\ \E i \in 1..Len(reading) :
          /\ fileContent' = Some(reading[i].content)
          /\ fileName' = reading[i].name
          /\ reading' = removeAt(reading, i)
    /\ result' = Null
    /\ error' = Null
    /\ UNCHANGED <<converterVars, points, isConverting, converting, download>>

\* the points input, rendered while fileContent && !result
setPoints ==
    /\ hasFile
    /\ result = Null
    /\ \E v \in TypedPoints : points' = pointsOf(v)
    /\ UNCHANGED <<converterVars, formVars>>

\* the Convert button (rendered while fileContent && !result, disabled while
\* isConverting) is clicked: handleConvert up to its await; the closure keeps the
\* fileContent and points of the render it was made in
handleConvert ==
    /\ hasFile
    /\ result = Null
    /\ ~isConverting
    /\ isConverting' = TRUE
    /\ error' = Null
    /\ converting' = Some([fileContent |-> fileContent[1], points |-> points])
    /\ UNCHANGED <<converterVars, points, fileContent, fileName, result, reading,
                   download>>

\* the timer fires and convertToD2L returns: setResult, then the finally block
ConversionComplete ==
    /\ converting # Null
    /\ LET conversionResult == convertToD2L(converting[1].fileContent, converting[1].points)
       IN  /\ conversionResult.kind = "result"
           /\ result' = Some(conversionResult)
    /\ isConverting' = FALSE
    /\ converting' = Null
    /\ UNCHANGED <<converterVars, points, fileContent, fileName, error, reading,
                   download>>

\* the timer fires and convertToD2L throws: setError with the Error's message (here the
\* Error itself), then the finally block
ConversionFailed ==
    /\ converting # Null
    /\ LET err == convertToD2L(converting[1].fileContent, converting[1].points)
       IN  /\ err.kind = "error"
           /\ error' = Some(err)
    /\ isConverting' = FALSE
    /\ converting' = Null
    /\ UNCHANGED <<converterVars, points, fileContent, fileName, result, reading,
                   download>>

\* the Download button, rendered while result is set
handleDownload ==
    /\ result # Null
    /\ download' = Some([name |-> downloadName(fileName),
                         content |-> result[1].csvContent])
    /\ UNCHANGED <<converterVars, points, fileContent, fileName, result, error,
                   isConverting, converting, reading>>

\* Change File (rendered while fileContent) or Convert Another File (while result)
handleReset ==
    /\ hasFile \/ result # Null
    /\ fileContent' = Null
    /\ fileName' = <<>>
    /\ result' = Null
    /\ error' = Null
    /\ UNCHANGED <<converterVars, points, isConverting, converting, reading, download>>

NextForm ==
    \/ readFile
    \/ handleFileSelect
    \/ setPoints
    \/ handleConvert
    \/ ConversionComplete
    \/ ConversionFailed
    \/ handleDownload
    \/ handleReset

SpecForm == InitForm /\ [][NextForm]_vars

(***************************************************************************)
(* Round trip of the emitted text (C1).                                    *)
(***************************************************************************)
RECURSIVE allOptions(_)
allOptions(gs) ==
    IF gs = <<>> THEN <<>> ELSE Head(gs).options \o allOptions(Tail(gs))

questionTextRows(fs) == SelectSeq(fs, LAMBDA f : f[1] = QuestionTextWord)

optionRows(fs) == SelectSeq(fs, LAMBDA f : f[1] = OptionWord)

\* the re-parsed QuestionText and Option lines carry the stems st and the options os
recovers(fs, st, os) ==
    LET qs == questionTextRows(fs)
        ops == optionRows(fs)
    IN  /\ Len(qs) = Len(st)
        /\ \A i \in 1..Len(qs) : Len(qs[i]) = 5 /\ qs[i][2] = st[i]
        /\ Len(ops) = Len(os)
        /\ \A k \in 1..Len(ops) :
              /\ Len(ops[k]) = 5
              /\ ops[k][3] = os[k].answer
              /\ ops[k][5] = os[k].feedback

\* C1 as stated: re-parsing the emitted text recovers every stem, answer and
\* feedback exactly, whatever the field values.
RoundTripExact ==
    pc = "reparsed" =>
        recovers(reparsed, [i \in 1..Len(groups) |-> groups[i].qText], allOptions(groups))

\* a feedback that escapeCSV leaves unquoted and that ends in a carriage return: the
\* line splitter takes that CR as part of the line break
unquotedTrailingCR(v) ==
    /\ v # <<>>
    /\ v[Len(v)] = CR
    /\ ~includes(v, Comma)
    /\ ~includes(v, Quote)

roundTripSafe(gs) ==
    \A i \in 1..Len(gs) :
        /\ ~includes(trim(gs[i].qText), LF)
        /\ \A j \in 1..Len(gs[i].options) :
              /\ ~includes(gs[i].options[j].answer, LF)
              /\ ~includes(gs[i].options[j].feedback, LF)
              /\ ~unquotedTrailingCR(gs[i].options[j].feedback)

\* C1 amended: when no emitted field holds a line feed and no unquoted feedback ends
\* in a carriage return, re-parsing the emitted text recovers every answer and
\* feedback exactly and every stem with its leading and trailing whitespace removed.
RoundTripWithinLines ==
    (pc = "reparsed" /\ roundTripSafe(groups)) =>
        recovers(reparsed, [i \in 1..Len(groups) |-> trim(groups[i].qText)],
                 allOptions(groups))

\* a re-parsed output whose fields held commas and quotes and a padded stem
RoundTripWitness ==
    /\ pc = "reparsed"
    /\ roundTripSafe(groups)
    /\ \E i \in 1..Len(groups) : groups[i].qText # trim(groups[i].qText)
    /\ \E i \in 1..Len(groups) : \E j \in 1..Len(groups[i].options) :
          /\ includes(groups[i].options[j].answer, Quote)
          /\ includes(groups[i].options[j].answer, Comma)
          /\ includes(groups[i].options[j].feedback, Space)

(***************************************************************************)
(* The emitted text, field by field (C7, C9).                              *)
(***************************************************************************)
NewQuestionWord == <<"N","e","w","Q","u","e","s","t","i","o","n">>
NoText == <<>>

weightText(option) == IF option.isCorrect THEN <<"1","0","0">> ELSE <<"0">>

\* the five fields of every line of a group's block
blockRecords(group, p) ==
    <<<<NewQuestionWord, <<"M","C">>, NoText, NoText, NoText>>,
      <<QuestionTextWord, trim(group.qText), NoText, NoText, NoText>>,
      <<PointsWord, numberToString(p), NoText, NoText, NoText>>>>
        \o [j \in 1..Len(group.options) |->
               <<OptionWord, weightText(group.options[j]), group.options[j].answer,
                 NoText, group.options[j].feedback>>]
        \o <<<<NoText, NoText, NoText, NoText, NoText>>>>

RECURSIVE expectedRecords(_, _)
expectedRecords(gs, p) ==
    IF gs = <<>> THEN <<>>
    ELSE blockRecords(Head(gs), p) \o expectedRecords(Tail(gs), p)

\* A strict reader of one emitted line: a comma outside quotes ends a field, a quote
\* may only open a field or, inside a quoted field, be doubled or close it right
\* before a comma or the end; a line feed may only stand inside quotes.
RECURSIVE strictFrom(_, _, _, _, _)
strictFrom(line, i, mode, current, fields) ==
    IF i > Len(line)
    THEN [ok |-> mode # "quoted", fields |-> Append(fields, current)]
    ELSE IF mode = "quoted"
         THEN IF line[i] = Quote /\ i < Len(line) /\ line[i + 1] = Quote
              THEN strictFrom(line, i + 2, "quoted", Append(current, Quote), fields)
              ELSE IF line[i] = Quote
                   THEN strictFrom(line, i + 1, "closed", current, fields)
                   ELSE strictFrom(line, i + 1, "quoted", Append(current, line[i]), fields)
         ELSE IF line[i] = Comma
              THEN strictFrom(line, i + 1, "start", <<>>, Append(fields, current))
              ELSE IF line[i] = Quote /\ mode = "start"
                   THEN strictFrom(line, i + 1, "quoted", current, fields)
                   ELSE IF line[i] \in {Quote, LF} \/ mode = "closed"
                        THEN [ok |-> FALSE, fields |-> fields]
                        ELSE strictFrom(line, i + 1, "plain", Append(current, line[i]),
                                        fields)

strictFields(line) == strictFrom(line, 1, "start", <<>>, <<>>)

countOf(s, c) == Cardinality({i \in 1..Len(s) : s[i] = c})

isSpecial(v) == includes(v, Comma) \/ includes(v, Quote) \/ includes(v, LF)

\* the quote characters a line may hold: two around and one more per quote inside
\* every field that holds a comma, a quote or a line feed, none for the other fields
RECURSIVE quotesDue(_)
quotesDue(fields) ==
    IF fields = <<>> THEN 0
    ELSE (IF isSpecial(Head(fields)) THEN 2 + 2 * countOf(Head(fields), Quote) ELSE 0)
             + quotesDue(Tail(fields))

emitted == pc \in {"emitted", "reparsed"}

\* C7: every emitted question-text, answer and feedback field is verbatim when it has
\* no comma, quote or line feed and otherwise quoted with its quotes doubled, so no
\* comma, quote or line feed of a field stands outside a quoted region.
EscapingInvariant ==
    emitted =>
        LET expected == expectedRecords(groups, points)
        IN  /\ csv = join(lines, <<LF>>)
            /\ Len(lines) = Len(expected)
            /\ \A k \in 1..Len(lines) :
                  /\ strictFields(lines[k]) = [ok |-> TRUE, fields |-> expected[k]]
                  /\ countOf(lines[k], Quote) = quotesDue(expected[k])

\* an emitted option with a quote and a line feed in its answer and a plain feedback
EscapingWitness ==
    /\ emitted
    /\ \E i \in 1..Len(groups) : \E j \in 1..Len(groups[i].options) :
          /\ includes(groups[i].options[j].answer, LF)
          /\ includes(groups[i].options[j].answer, Quote)
          /\ groups[i].options[j].feedback # <<>>
          /\ ~isSpecial(groups[i].options[j].feedback)

isValidRow(r) ==
    /\ trim(r.qNumber) # <<>>
    /\ toUpperCase(trim(r.qType)) = <<"M","C">>

validIndices == {i \in 1..Len(sourceRows) : isValidRow(sourceRows[i])}

validKeys == {trim(sourceRows[i].qNumber) : i \in validIndices}

\* the first valid row with question number k, 0 when there is none
firstRowOf(k) ==
    IF \E i \in validIndices : trim(sourceRows[i].qNumber) = k
    THEN CHOOSE i \in validIndices :
            /\ trim(sourceRows[i].qNumber) = k
            /\ \A j \in validIndices : trim(sourceRows[j].qNumber) = k => i <= j
    ELSE 0

\* the valid rows with question number k, in input order
rowsOf(k) == SelectSeq(sourceRows, LAMBDA r : isValidRow(r) /\ trim(r.qNumber) = k)

\* the valid rows in the order of their groups
RECURSIVE rowsOfMap(_)
rowsOfMap(m) == IF m = <<>> THEN <<>> ELSE rowsOf(Head(m).key) \o rowsOfMap(Tail(m))

\* v is the word correct in any letter case, with whitespace around it only
spellsCorrect(v) ==
    \E i \in 1..Len(v) :
        /\ i + 6 <= Len(v)
        /\ \A n \in 1..7 : v[i + n - 1] \in {<<"c","o","r","r","e","c","t">>[n],
                                              <<"C","O","R","R","E","C","T">>[n]}
        /\ \A j \in 1..Len(v) : (j < i \/ j > i + 6) => IsWhiteSpace(v[j])

grouped == pc \in {"groups", "done"}

emittedFields == [k \in 1..Len(lines) |-> parseCSVLine(lines[k])]

(***************************************************************************)
(* C2: the outcomes of convertToD2L.                                       *)
(***************************************************************************)
inputIsBlank == \A i \in 1..Len(csvContent) : IsWhiteSpace(csvContent[i])

missingNames ==
    SelectSeq(<<QTypeName, QTextName, AnswerName, AnswerMatchName, NotesName>>,
              LAMBDA name : \A i \in 1..Len(headers) :
                                toLowerCase(trim(headers[i])) # toLowerCase(name))

\* C2: convertToD2L ends in exactly one outcome: the empty-input error iff the input
\* has no non-blank line; else the missing-columns error, naming exactly the missing
\* columns, iff one is missing; else the no-questions error iff no row is valid; else
\* a result.  A failure returns no text, counts or warnings.
OutcomeOrder ==
    /\ (outcome = NoOutcome) <=> (pc \notin {"failed", "done"})
    /\ pc \in {"failed", "done"} =>
          IF inputIsBlank
          THEN outcome = [kind |-> "error", error |-> "EmptyInput", missing |-> <<>>]
          ELSE IF missingNames # <<>>
               THEN outcome = [kind |-> "error", error |-> "MissingColumns",
                               missing |-> missingNames]
               ELSE IF validIndices = {}
                    THEN /\ outcome = [kind |-> "error", error |-> "NoQuestions",
                                       missing |-> <<>>]
                         /\ Len(rows) = Len(sourceRows)
                    ELSE /\ outcome.kind = "result"
                         /\ outcome.questionsCount > 0
    /\ pc = "failed" => /\ DOMAIN outcome = {"kind", "error", "missing"}
                        /\ csv = <<>>
                        /\ lines = <<>>

\* the missing-columns error for a header lacking three columns, although no row
\* below it would have been valid either
OutcomeWitness ==
    /\ pc = "failed"
    /\ outcome.error = "MissingColumns"
    /\ outcome.missing = <<QTypeName, AnswerName, AnswerMatchName>>
    /\ Len(rows) > 0

(***************************************************************************)
(* C3, C4: the groups and their order.                                     *)
(***************************************************************************)
optionTexts(os) == [j \in 1..Len(os) |-> <<os[j].answer, os[j].feedback>>]

rowTexts(rs) == [j \in 1..Len(rs) |-> <<rs[j].answer, rs[j].notes>>]

\* C3: group a precedes group b iff the first valid row with a's question number
\* precedes the first valid row with b's; the options of a group are those of its
\* valid rows in input order; the emitted text keeps both orders.
OrderPreservation ==
    grouped =>
        /\ groups = mapValues(groupMap)
        /\ \A a \in 1..Len(groupMap) : firstRowOf(groupMap[a].key) > 0
        /\ \A a, b \in 1..Len(groupMap) :
              (a < b) <=> (firstRowOf(groupMap[a].key) < firstRowOf(groupMap[b].key))
        /\ \A a \in 1..Len(groups) :
              optionTexts(groups[a].options) = rowTexts(rowsOf(groupMap[a].key))
        /\ pc = "done" =>
              LET ops == optionRows(emittedFields)
                  qs == questionTextRows(emittedFields)
              IN  /\ [k \in 1..Len(ops) |-> <<ops[k][3], ops[k][5]>>]
                        = rowTexts(rowsOfMap(groupMap))
                  /\ [a \in 1..Len(qs) |-> qs[a][2]]
                        = [a \in 1..Len(groupMap) |->
                              trim(sourceRows[firstRowOf(groupMap[a].key)].qText)]

\* a conversion of three rows where a skipped row with the second group's number
\* comes before the first group's first row
OrderWitness ==
    /\ pc = "done"
    /\ Len(groupMap) = 2
    /\ Len(sourceRows) = 3
    /\ ~isValidRow(sourceRows[1])
    /\ trim(sourceRows[1].qNumber) = groupMap[2].key

CorrectnessMapping ==
    pc = "done" =>
        LET ops == optionRows(emittedFields)
            from == rowsOfMap(groupMap)
        IN  /\ Len(ops) = Len(from)
            /\ \A k \in 1..Len(ops) :
                  ops[k][2] = IF spellsCorrect(from[k].answerMatch)
                              THEN <<"1","0","0">>
                              ELSE <<"0">>

\* weights 100 and 0 emitted for a padded upper-case cell and for the cell incorrect
CorrectnessWitness ==
    /\ pc = "done"
    /\ \E i \in validIndices : sourceRows[i].answerMatch = <<" ","C","O","R","R","E","C","T"," ">>
    /\ \E i \in validIndices : sourceRows[i].answerMatch = <<"i","n","c","o","r","r","e","c","t">>

\* the first character that is not whitespace of every non-blank line of the input
RECURSIVE blankBackTo(_)
blankBackTo(j) ==
    \/ j = 0
    \/ csvContent[j] = LF
    \/ IsWhiteSpace(csvContent[j]) /\ blankBackTo(j - 1)

lineStarts ==
    {i \in 1..Len(csvContent) : ~IsWhiteSpace(csvContent[i]) /\ blankBackTo(i - 1)}

\* C6: the returned optionsCount is the number of options of all groups, which is
\* the number of data rows less the skipped rows, the number of valid rows.
OptionCountConservation ==
    pc = "done" =>
        /\ outcome.optionsCount =
              Cardinality({<<a, j>> \in (1..Len(groups)) \X (1..Len(sourceRows)) :
                              j <= Len(groups[a].options)})
        /\ Len(rows) = Cardinality(lineStarts) - 1
        /\ outcome.optionsCount = Len(rows) - outcome.skippedRows
        /\ outcome.optionsCount = Cardinality(validIndices)
        /\ Len(optionRows(emittedFields)) = outcome.optionsCount

\* a conversion with a blank line among the data lines and a skipped row
CountWitness ==
    /\ pc = "done"
    /\ outcome.skippedRows = 1
    /\ outcome.optionsCount = 1
    /\ Len(rows) = 2
    /\ Len(rows) < countOf(csvContent, LF)

(***************************************************************************)
(* C8: the warnings.                                                       *)
(***************************************************************************)
\* p is s or the first characters of s
isPrefix(p, s) == Len(p) <= Len(s) /\ SubSeq(s, 1, Len(p)) = p /\ (p = s \/ Len(p) >= 30)

skippedRowList == SelectSeq(sourceRows, LAMBDA r : ~isValidRow(r))

isRowWarning(w) == w.kind \in {"noQNumber", "notMC"}

isGroupWarning(w) == w.kind \in {"noCorrect", "multiCorrect"}

\* the valid rows of question number k whose answer-match cell says correct
correctRowsOf(k) ==
    Cardinality({i \in validIndices :
                    /\ trim(sourceRows[i].qNumber) = k
                    /\ spellsCorrect(sourceRows[i].answerMatch)})

oddGroups == SelectSeq(groupMap, LAMBDA g : correctRowsOf(g.key) # 1)

groupingDone == (pc = "groups" /\ idx > Len(groups)) \/ pc = "done"

\* C8: the warnings are one row-level warning per skipped row in input order, then
\* one group-level warning per group with no or several correct options in group
\* order, the latter with the number of them; a group-level warning never comes
\* before a row-level one.
WarningSequence ==
    /\ \A a, b \in 1..Len(warnings) :
          (isGroupWarning(warnings[a]) /\ isRowWarning(warnings[b])) => b < a
    /\ groupingDone =>
          /\ Len(warnings) = Len(skippedRowList) + Len(oddGroups)
          /\ skipped = Len(skippedRowList)
          /\ \A k \in 1..Len(skippedRowList) :
                IF trim(skippedRowList[k].qNumber) = <<>>
                THEN /\ warnings[k].kind = "noQNumber"
                     /\ isPrefix(warnings[k].text, skippedRowList[k].qText)
                ELSE /\ warnings[k].kind = "notMC"
                     /\ warnings[k].text = skippedRowList[k].qNumber
                     /\ warnings[k].type = skippedRowList[k].qType
          /\ \A g \in 1..Len(oddGroups) :
                LET w == warnings[Len(skippedRowList) + g]
                IN  /\ isPrefix(w.text, oddGroups[g].qText \o <<Space>>)
                    /\ IF correctRowsOf(oddGroups[g].key) = 0
                       THEN w.kind = "noCorrect"
                       ELSE w.kind = "multiCorrect"
                            /\ w.count = correctRowsOf(oddGroups[g].key)
    /\ pc = "done" => outcome.warnings = warnings

\* a skipped row, then a group with two correct options and its warning
WarningWitness ==
    /\ pc = "done"
    /\ Len(warnings) = 2
    /\ warnings[1].kind = "notMC"
    /\ warnings[2].kind = "multiCorrect"
    /\ warnings[2].count = 2

(***************************************************************************)
(* C10: a skipped row changes no group.                                    *)
(***************************************************************************)
\* groupQuestions is at a row that has no question number or is not of type MC
atSkippedRow ==
    /\ pc = "rows"
    /\ idx <= Len(sourceRows)
    /\ ~isValidRow(sourceRows[idx])

hasQNumberColumn ==
    \E i \in 1..Len(headers) : toLowerCase(trim(headers[i])) = <<"q"," ","#">>

\* C10: the step of groupQuestions over a row with no question number (as every row
\* of an input without a Q # column is) or with a type other than MC leaves the
\* groups as they are, appends one warning and adds one to the skipped count; no
\* group has an empty key.
SkipIsNoOp ==
    /\ [][atSkippedRow =>
             /\ groupMap' = groupMap
             /\ groups' = groups
             /\ Len(warnings') = Len(warnings) + 1
             /\ SubSeq(warnings', 1, Len(warnings)) = warnings
             /\ isRowWarning(warnings'[Len(warnings')])
             /\ skipped' = skipped + 1
             /\ idx' = idx + 1]_vars
    /\ [](\A a \in 1..Len(groupMap) : groupMap[a].key # <<>>)
    /\ []((pc \in {"rows", "groups", "done"} /\ ~hasQNumberColumn) =>
             /\ \A i \in 1..Len(sourceRows) : sourceRows[i].qNumber = <<>>
             /\ groupMap = <<>>)

\* groupQuestions has just skipped a row of a type other than MC whose question
\* number is that of an existing group
SkipWitness ==
    /\ pc = "rows"
    /\ idx = 3
    /\ skipped = 1
    /\ ~isValidRow(sourceRows[2])
    /\ Len(groupMap) = 1
    /\ trim(sourceRows[2].qNumber) = groupMap[1].key

(***************************************************************************)
(* C11: the stem of a group is that of the row that created it.            *)
(***************************************************************************)
\* the rows carrying question number k after trimming, skipped or not
carriers(k) == {i \in 1..Len(sourceRows) : trim(sourceRows[i].qNumber) = k}

\* C11: at every point of groupQuestions the stem of each group is the stem of the
\* first row, in input order, that has the group's trimmed question number and is
\* not skipped; the groups handed to generateD2LCSV have the same stems; and no step,
\* over a later row of the number or over a skipped one, changes the stem of an
\* existing group.
StemFixedAtCreation ==
    /\ [](\A a \in 1..Len(groupMap) :
             /\ firstRowOf(groupMap[a].key) # 0
             /\ pc = "rows" => firstRowOf(groupMap[a].key) < idx
             /\ groupMap[a].qText = sourceRows[firstRowOf(groupMap[a].key)].qText)
    /\ [](grouped =>
             /\ Len(groups) = Len(groupMap)
             /\ \A a \in 1..Len(groups) : groups[a].qText = groupMap[a].qText)
    /\ [][/\ Len(groupMap') >= Len(groupMap)
          /\ \A a \in 1..Len(groupMap) :
                /\ groupMap'[a].key = groupMap[a].key
                /\ groupMap'[a].qText = groupMap[a].qText]_vars

\* a group whose number is carried first by a skipped row, then by the row that
\* created it, then by a row that is not skipped, the first and the last with a stem
\* other than the group's
StemWitness ==
    /\ grouped
    /\ \E a \in 1..Len(groupMap) :
          \E i, j \in carriers(groupMap[a].key) :
             /\ i < firstRowOf(groupMap[a].key)
             /\ ~isValidRow(sourceRows[i])
             /\ sourceRows[i].qText # groupMap[a].qText
             /\ firstRowOf(groupMap[a].key) < j
             /\ isValidRow(sourceRows[j])
             /\ sourceRows[j].qText # groupMap[a].qText

(***************************************************************************)
(* C12: the result shown by ConversionForm and the file it holds.          *)
(***************************************************************************)
\* the values the form's points can take
FormPoints == {pointsOf(v) : v \in TypedPoints}

\* the download that belongs to file f converted with p points
downloadOf(f, p) ==
    [name |-> downloadName(f.name), content |-> convertToD2L(f.content, p).csvContent]

\* C12: result is null whenever fileContent is null; a result that is set is the
\* conversion of the fileContent the form holds; and a download offered has the
\* converted content of the file its name comes from.
ResultIsOfCurrentFile ==
    /\ fileContent = Null => result = Null
    /\ result # Null =>
          /\ fileContent # Null
          /\ \E p \in FormPoints : result[1] = convertToD2L(fileContent[1], p)
    /\ download # Null =>
          \E f \in FormFiles, p \in FormPoints :
             /\ convertToD2L(f.content, p).kind = "result"
             /\ download[1] = downloadOf(f, p)

\* the form holds one file and shows the conversion of another, and the download
\* offered has the name of the one and the content of the other
StaleResultWitness ==
    /\ result # Null
    /\ hasFile
    /\ \A p \in FormPoints : result[1] # convertToD2L(fileContent[1], p)
    /\ download # Null
    /\ download[1].name = downloadName(fileName)
    /\ download[1].content = result[1].csvContent

====
